---- MODULE Spec2Model ----
(***************************************************************************)
(* Model of the wmic decoding library (src/wmi.go).  The file holds two    *)
(* generations of the package: the key/value pipeline (QueryWithTimeout,   *)
(* lines 1-284) and the delimited pipeline (Query, lines 286-429).         *)
(*                                                                         *)
(* Go strings are modelled as sequences of one-character strings, so that  *)
(* trimming, splitting, joining and number parsing are computed the way    *)
(* the library computes them.                                              *)
(***************************************************************************)
EXTENDS Integers, Sequences, FiniteSets, TLC

----------------------------------------------------------------------------
(* strings *)

WS == {" ", "\t"}

RECURSIVE TrimLeft(_)
TrimLeft(s) ==
  IF s # <<>> /\ Head(s) \in WS THEN TrimLeft(Tail(s)) ELSE s

RECURSIVE TrimRight(_)
TrimRight(s) ==
  IF s # <<>> /\ s[Len(s)] \in WS THEN TrimRight(SubSeq(s, 1, Len(s) - 1)) ELSE s

TrimSpace(s) == TrimRight(TrimLeft(s))

\* strings.Index for a one-character separator: first position, 0 if absent
Index(s, c) ==
  IF \E i \in 1..Len(s) : s[i] = c
  THEN CHOOSE i \in 1..Len(s) : s[i] = c /\ \A j \in 1..(i - 1) : s[j] # c
  ELSE 0

\* strings.SplitN(s, c, 2)
SplitN2(s, c) ==
  LET i == Index(s, c)
  IN IF i = 0 THEN <<s>>
     ELSE <<SubSeq(s, 1, i - 1), SubSeq(s, i + 1, Len(s))>>

\* strings.Split(s, c): always at least one part, empty parts are kept
RECURSIVE Split(_, _)
Split(s, c) ==
  LET i == Index(s, c)
  IN IF i = 0 THEN <<s>>
     ELSE <<SubSeq(s, 1, i - 1)>> \o Split(SubSeq(s, i + 1, Len(s)), c)

\* strings.Join(parts, c)
RECURSIVE Join(_, _)
Join(parts, c) ==
  IF parts = <<>> THEN <<>>
  ELSE IF Len(parts) = 1 THEN parts[1]
  ELSE parts[1] \o <<c>> \o Join(Tail(parts), c)

HasPrefix(s, c) == s # <<>> /\ s[1] = c
HasSuffix(s, c) == s # <<>> /\ s[Len(s)] = c

----------------------------------------------------------------------------
(* strconv *)

Digits == <<"0", "1", "2", "3", "4", "5", "6", "7", "8", "9">>
IsDigit(c) == \E i \in 1..10 : Digits[i] = c
DigitVal(c) == (CHOOSE i \in 1..10 : Digits[i] = c) - 1

RECURSIVE Pow2(_)
Pow2(n) == IF n = 0 THEN 1 ELSE 2 * Pow2(n - 1)

RECURSIVE DecVal(_)
DecVal(s) == IF s = <<>> THEN 0 ELSE 10 * DecVal(SubSeq(s, 1, Len(s) - 1)) + DigitVal(s[Len(s)])

AllDigits(s) == s # <<>> /\ \A i \in 1..Len(s) : IsDigit(s[i])

\* strconv.ParseUint(s, 10, bits): no sign, digits only, value < 2^bits
ParseUint(s, bits) ==
  IF AllDigits(s) /\ DecVal(s) < Pow2(bits)
  THEN [ok |-> TRUE, n |-> DecVal(s)]
  ELSE [ok |-> FALSE, n |-> 0]

\* strconv.ParseInt(s, 10, bits): optional sign, digits, range of the width
ParseInt(s, bits) ==
  LET neg  == s # <<>> /\ s[1] = "-"
      body == IF s # <<>> /\ s[1] \in {"+", "-"} THEN Tail(s) ELSE s
      cut  == Pow2(bits - 1)
  IN IF ~AllDigits(body) THEN [ok |-> FALSE, n |-> 0]
     ELSE IF ~neg /\ DecVal(body) >= cut THEN [ok |-> FALSE, n |-> 0]
     ELSE IF neg /\ DecVal(body) > cut THEN [ok |-> FALSE, n |-> 0]
     ELSE [ok |-> TRUE, n |-> IF neg THEN 0 - DecVal(body) ELSE DecVal(body)]

BoolTrue  == { <<"1">>, <<"t">>, <<"T">>, <<"T","R","U","E">>, <<"t","r","u","e">>, <<"T","r","u","e">> }
BoolFalse == { <<"0">>, <<"f">>, <<"F">>, <<"F","A","L","S","E">>, <<"f","a","l","s","e">>, <<"F","a","l","s","e">> }

\* strconv.ParseBool
ParseBool(s) ==
  IF s \in BoolTrue THEN [ok |-> TRUE, b |-> TRUE]
  ELSE IF s \in BoolFalse THEN [ok |-> TRUE, b |-> FALSE]
  ELSE [ok |-> FALSE, b |-> FALSE]

----------------------------------------------------------------------------
(* destination record types *)

\* The record type used by the callers in this model:
\*   type Person struct { Name string; Age int8; Ok bool; Size uint8; Tags []string }
nName == <<"N", "a", "m", "e">>
nAge  == <<"A", "g", "e">>
nOk   == <<"O", "k">>
nSize == <<"S", "i", "z", "e">>
nTags == <<"T", "a", "g", "s">>

Person ==
  [name   |-> "Person",
   fields |-> << [name |-> nName, kind |-> "string", bits |-> 0],
                 [name |-> nAge,  kind |-> "int",    bits |-> 8],
                 [name |-> nOk,   kind |-> "bool",   bits |-> 0],
                 [name |-> nSize, kind |-> "uint",   bits |-> 8],
                 [name |-> nTags, kind |-> "slice",  bits |-> 0] >>]

\* A record type with the integer widths of the model:
\*   type Widths struct { I int8; J int16; U uint8; V uint16 }
nI == <<"I">>
nJ == <<"J">>
nU == <<"U">>
nV == <<"V">>

Widths ==
  [name   |-> "Widths",
   fields |-> << [name |-> nI, kind |-> "int",  bits |-> 8],
                 [name |-> nJ, kind |-> "int",  bits |-> 16],
                 [name |-> nU, kind |-> "uint", bits |-> 8],
                 [name |-> nV, kind |-> "uint", bits |-> 16] >>]

\* More record types.  Type.Name() of an unnamed struct type is "":
\*   type Disk struct { Name string; Size uint8 }
\*   struct { Name string }
\*   struct { Size uint8 }
Disk ==
  [name   |-> "Disk",
   fields |-> << [name |-> nName, kind |-> "string", bits |-> 0],
                 [name |-> nSize, kind |-> "uint",   bits |-> 8] >>]

AnonName ==
  [name   |-> "",
   fields |-> << [name |-> nName, kind |-> "string", bits |-> 0] >>]

AnonSize ==
  [name   |-> "",
   fields |-> << [name |-> nSize, kind |-> "uint", bits |-> 8] >>]

\* the zero value of a field of the given kind
ZeroOf(kind) ==
  CASE kind = "string" -> <<>>
    [] kind = "int"    -> 0
    [] kind = "uint"   -> 0
    [] kind = "bool"   -> FALSE
    [] OTHER           -> <<>>

\* reflect.New(innerType): a record with every field zero
NewRecord(T) == [i \in 1..Len(T.fields) |-> ZeroOf(T.fields[i].kind)]

\* reflect.Value.FieldByName: index of the field, 0 when there is none
FieldByName(T, field) ==
  IF \E i \in 1..Len(T.fields) : T.fields[i].name = field
  THEN CHOOSE i \in 1..Len(T.fields) : T.fields[i].name = field
  ELSE 0

setString(s, rec, i) == [err |-> "nil", rec |-> [rec EXCEPT ![i] = s]]

\* mutant: the value is parsed without the width and stored modulo 2^bits
setIntNWrapped(s, rec, i, bits) ==
  LET p == ParseInt(s, 24)
      h == Pow2(bits - 1)
  IN IF ~p.ok THEN [err |-> "coerce", rec |-> rec]
     ELSE [err |-> "nil", rec |-> [rec EXCEPT ![i] = ((p.n + h) % (2 * h)) - h]]

setIntN(s, rec, i, bits) ==
  LET p == ParseInt(s, bits)
  IN IF ~p.ok THEN [err |-> "coerce", rec |-> rec]
     ELSE [err |-> "nil", rec |-> [rec EXCEPT ![i] = p.n]]

setUintN(s, rec, i, bits) ==
  LET p == ParseUint(s, bits)
  IN IF ~p.ok THEN [err |-> "coerce", rec |-> rec]
     ELSE [err |-> "nil", rec |-> [rec EXCEPT ![i] = p.n]]

setBool(s, rec, i) ==
  LET p == ParseBool(s)
  IN IF ~p.ok THEN [err |-> "coerce", rec |-> rec]
     ELSE [err |-> "nil", rec |-> [rec EXCEPT ![i] = p.b]]

\* set(field, s, item): the error class and the record after the call
set(field, s, rec, T) ==
  LET i == FieldByName(T, field)
  IN IF i = 0 THEN [err |-> "FieldError", rec |-> rec]
     ELSE LET f == T.fields[i]
          IN CASE f.kind = "string" -> setString(s, rec, i)
               [] f.kind = "int"    -> setIntN(s, rec, i, f.bits)
               [] f.kind = "uint"   -> setUintN(s, rec, i, f.bits)
               [] f.kind = "bool"   -> setBool(s, rec, i)
               [] OTHER             -> [err |-> "UnsupportedTypeError", rec |-> rec]

----------------------------------------------------------------------------
(* bounds and inputs *)

MaxLines == 3

tPATH   == <<"P", "A", "T", "H">>
tWHERE  == <<"W", "H", "E", "R", "E">>
tGET    == <<"G", "E", "T">>
tRAWXML == <<"/", "f", "o", "r", "m", "a", "t", ":", "r", "a", "w", "x", "m", "l">>
tVALUE  == <<"/", "V", "A", "L", "U", "E">>
tCSV    == <<"/", "f", "o", "r", "m", "a", "t", ":", "c", "s", "v">>

TIMEOUT_DEFAULT == <<"3", "0", "m">>

\* time.ParseDuration restricted to the shapes used here: "0", or one or
\* more groups of digits followed by a unit, with an optional sign
DurationUnits == {"s", "m", "h"}
RECURSIVE DurationGroups(_)
DurationGroups(s) ==
  \/ s = <<>>
  \/ \E n \in 1..(Len(s) - 1) :
       /\ AllDigits(SubSeq(s, 1, n))
       /\ s[n + 1] \in DurationUnits
       /\ DurationGroups(SubSeq(s, n + 2, Len(s)))
ParseDurationOk(s) ==
  LET body == IF s # <<>> /\ s[1] \in {"+", "-"} THEN Tail(s) ELSE s
  IN body # <<>> /\ (body = <<"0">> \/ DurationGroups(body))

\* the lines the external process can print in this model
lBlank    == <<>>
lSpace    == <<" ">>
lNameAl   == <<"N", "a", "m", "e", "=", "A", "l">>
lNameBo   == <<"N", "a", "m", "e", "=", " ", "B", "o", " ">>
lAge30    == <<"A", "g", "e", "=", "3", "0">>
lAgeBad   == <<"A", "g", "e", "=", "x">>
lAgeBig   == <<"A", "g", "e", "=", "1", "2", "8">>
lOkBad    == <<"O", "k", "=", "n", "o">>
lSizeNeg  == <<"S", "i", "z", "e", "=", "-", "1">>
lBogus    == <<"B", "o", "g", "u", "s", "=", "1">>
lTags     == <<"T", "a", "g", "s", "=", "a">>
lNameNone == <<"N", "a", "m", "e", "=">>
lJunk     == <<"j", "u", "n", "k">>

LineSet == { lBlank, lSpace, lNameAl, lNameBo, lAge30, lAgeBad, lAgeBig,
             lOkBad, lSizeNeg, lBogus, lTags, lNameNone, lJunk }

Texts(L, n) == UNION { [1..k -> L] : k \in 0..n }

\* the caller's record that a pre-filled destination holds
CallerRecord == << <<"Z">>, 9, TRUE, 1, <<>> >>

----------------------------------------------------------------------------
(* state *)

VARIABLES
  pc,             \* position of the call
  entry,          \* the exported function the caller invoked
  class,          \* argument: WMI class
  argColumns,     \* argument: columns, as the caller passed them
  argWhere,       \* argument: where clause, as the caller passed it
  argTimeout,     \* argument: timeout, as the caller passed it
  shape,          \* type of the out argument
  columns,        \* QueryWithTimeout / Query parameter
  where,          \* QueryWithTimeout / Query parameter
  timeout,        \* QueryWithTimeout parameter
  out,            \* the caller's destination collection
  out0,           \* the destination collection as it was when the call was made
  heap,           \* records allocated by reflect.New, by address
  fieldCache,     \* package variable fieldCache
  query,          \* argument list handed to the external process
  stdout,         \* lines printed by the external process
  pos,            \* number of lines the scanner has returned
  item,           \* address of the record being filled
  contentStarted, \* framer state
  line,           \* framer row counter
  result,         \* addresses of the emitted records
  recordErrors,   \* recoverable errors collected, returned with the call
  err,            \* error value returned by the call
  goroutines,     \* concurrent calls: position and locals of each, lines 121-134
  fault           \* fatal error thrown by the runtime, "none" while it runs

vars == << pc, entry, class, argColumns, argWhere, argTimeout, shape, columns,
           where, timeout, out, out0, heap, fieldCache, query, stdout, pos,
           item, contentStarted, line, result, recordErrors, err, goroutines,
           fault >>

argVars  == << entry, class, argColumns, argWhere, argTimeout, shape, out0 >>
scanVars == << stdout, pos, item, contentStarted, line, result >>
raceVars == << goroutines, fault >>

\* goroutines that call QueryWithTimeout concurrently, and calls made by each
NumProcs == 2
MaxCalls == 2
Procs == 1..NumProcs

\* a goroutine that has not called yet
IdleGoroutine == [pc |-> "idle", calls |-> 0, cols |-> <<>>]

\* the variables of the single call
vars_call == << pc, argVars, scanVars, columns, where, timeout, out, heap, query,
               recordErrors, err >>

NoErr == [kind |-> "nil", field |-> <<>>]
Error(k) == [kind |-> k, field |-> <<>>]

TypeNames == {"Person", "Widths", "Disk", ""}
EmptyCache == [n \in TypeNames |-> [ok |-> FALSE, val |-> <<>>]]

\* a call as the caller makes it, before the entry point has run
InitCall(c) ==
  /\ pc = "call"
  /\ entry = c.entry
  /\ class = c.class
  /\ argColumns = c.columns
  /\ argWhere = c.where
  /\ argTimeout = c.timeout
  /\ shape = c.shape
  /\ columns = <<>>
  /\ where = <<>>
  /\ timeout = <<>>
  /\ heap = << CallerRecord >>
  /\ out = IF ~c.filled THEN <<>>
           ELSE IF c.shape.elemPtr THEN << 1 >> ELSE << CallerRecord >>
  /\ out0 = out
  /\ fieldCache = EmptyCache
  /\ query = <<>>
  /\ stdout = <<>>
  /\ pos = 0
  /\ item = 0
  /\ contentStarted = FALSE
  /\ line = 0
  /\ result = <<>>
  /\ recordErrors = <<>>
  /\ err = NoErr
  /\ goroutines = [i \in Procs |-> IdleGoroutine]
  /\ fault = "none"

----------------------------------------------------------------------------
(* key/value pipeline: entry points *)

WithTimeoutEntries == {"QueryAllWithTimeout", "QueryColumnsWithTimeout",
                       "QueryWhereWithTimeout", "QueryWithTimeout"}
DefaultEntries == {"QueryAll", "QueryColumns", "QueryWhere", "Query"}

\* the columns, where and timeout that reach QueryWithTimeout
QueryParams(e, cols, wh, tmo) ==
  CASE e = "QueryAll"                -> [columns |-> <<>>, where |-> <<>>, timeout |-> TIMEOUT_DEFAULT]
    [] e = "QueryAllWithTimeout"     -> [columns |-> <<>>, where |-> <<>>, timeout |-> tmo]
    [] e = "QueryColumns"            -> [columns |-> <<>>, where |-> <<>>, timeout |-> TIMEOUT_DEFAULT]
    [] e = "QueryColumnsWithTimeout" -> [columns |-> cols, where |-> <<>>, timeout |-> tmo]
    [] e = "QueryWhere"              -> [columns |-> <<>>, where |-> wh,   timeout |-> TIMEOUT_DEFAULT]
    [] e = "QueryWhereWithTimeout"   -> [columns |-> <<>>, where |-> wh,   timeout |-> tmo]
    [] e = "Query"                   -> [columns |-> <<>>, where |-> wh,   timeout |-> TIMEOUT_DEFAULT]
    [] e = "QueryWithTimeout"        -> [columns |-> cols, where |-> wh,   timeout |-> tmo]

Enter ==
  /\ pc = "call"
  /\ entry \in WithTimeoutEntries \cup DefaultEntries
  /\ LET p == QueryParams(entry, argColumns, argWhere, argTimeout)
     IN /\ columns' = p.columns
        /\ where' = p.where
        /\ timeout' = p.timeout
  /\ pc' = "validate"
  /\ UNCHANGED << argVars, raceVars, scanVars, out, heap, fieldCache, query, recordErrors, err >>

\* QueryWithTimeout, lines 84-104
Validate ==
  /\ pc = "validate"
  /\ IF ~shape.slice
     THEN pc' = "done" /\ err' = Error("NotSlice")
     ELSE IF ~shape.elemStruct
     THEN pc' = "done" /\ err' = Error("NotStruct")
     ELSE pc' = "build" /\ err' = err
  /\ UNCHANGED << argVars, raceVars, scanVars, columns, where, timeout, out, heap,
                  fieldCache, query, recordErrors >>

\* mutant: both parentheses are decided by the first token alone
WhereTokensFirstOnly(wh) ==
  IF wh = <<>> THEN <<>>
  ELSE LET parts == Split(TrimSpace(wh), " ")
       IN IF HasPrefix(parts[1], "(") THEN <<tWHERE>> \o parts
          ELSE <<tWHERE>> \o << <<"(">> >> \o parts \o << <<")">> >>

\* the where tokens, lines 107-117
WhereTokens(wh) ==
  IF wh = <<>> THEN <<>>
  ELSE LET parts == Split(TrimSpace(wh), " ")
       IN <<tWHERE>>
          \o (IF ~HasPrefix(parts[1], "(") THEN << <<"(">> >> ELSE <<>>)
          \o parts
          \o (IF ~HasSuffix(parts[Len(parts)], ")") THEN << <<")">> >> ELSE <<>>)

\* the schema field list, lines 126-131
FieldList(T) == Join([i \in 1..Len(T.fields) |-> T.fields[i].name], ",")

\* the column token, lines 121-137
ColumnToken(cols, T, cache) ==
  IF Len(cols) = 0
  THEN IF cache[T.name].ok THEN cache[T.name].val ELSE FieldList(T)
  ELSE Join(cols, ",")

\* QueryWithTimeout, lines 106-139
BuildQuery ==
  /\ pc = "build"
  /\ query' = <<tPATH, class>> \o WhereTokens(where) \o <<tGET>>
              \o << ColumnToken(columns, shape.type, fieldCache) >>
              \o <<tRAWXML, tVALUE>>
  /\ fieldCache' = IF Len(columns) = 0 /\ ~fieldCache[shape.type.name].ok
                   THEN [fieldCache EXCEPT ![shape.type.name] =
                           [ok |-> TRUE, val |-> FieldList(shape.type)]]
                   ELSE fieldCache
  /\ pc' = "timeout"
  /\ UNCHANGED << argVars, raceVars, scanVars, columns, where, timeout, out, heap,
                  recordErrors, err >>

\* QueryWithTimeout, lines 141-144
ParseTimeout ==
  /\ pc = "timeout"
  /\ IF ParseDurationOk(timeout)
     THEN pc' = "run" /\ err' = err
     ELSE pc' = "done" /\ err' = Error("ParseDuration")
  /\ UNCHANGED << argVars, raceVars, scanVars, columns, where, timeout, out, heap,
                  fieldCache, query, recordErrors >>

\* cmd.Run fails (exit status, missing binary, deadline), lines 153-156
RunError ==
  /\ pc = "run"
  /\ pc' = "done"
  /\ err' = Error("Run")
  /\ UNCHANGED << argVars, raceVars, scanVars, columns, where, timeout, out, heap,
                  fieldCache, query, recordErrors >>

\* the process wrote to its error channel, lines 157-159
RunStderr ==
  /\ pc = "run"
  /\ pc' = "done"
  /\ err' = Error("Stderr")
  /\ UNCHANGED << argVars, raceVars, scanVars, columns, where, timeout, out, heap,
                  fieldCache, query, recordErrors >>

\* the process succeeded and printed text; lines 161-168 set up the scan
RunOk(texts) ==
  /\ pc = "run"
  /\ \E t \in texts : stdout' = t
  /\ pos' = 0
  /\ result' = <<>>
  /\ heap' = Append(heap, NewRecord(shape.type))
  /\ item' = Len(heap) + 1
  /\ contentStarted' = FALSE
  /\ line' = 1
  /\ pc' = "scan"
  /\ UNCHANGED << argVars, raceVars, columns, where, timeout, out, fieldCache, query,
                  recordErrors, err >>

----------------------------------------------------------------------------
(* key/value pipeline: the scan loop and the copy to the destination *)

\* mutant: the error is attributed to the row after the one being filled
RecordErrorNextRow(cls, field, ln) == [Class |-> cls, Field |-> field, Line |-> ln + 1]

\* line 193: the recoverable error of a field
RecordError(cls, field, ln) == [Class |-> cls, Field |-> field, Line |-> ln]

\* mutant: an emitted row is put in front of the rows emitted before it
EmitFront(res, it) == <<it>> \o res

\* lines 174 and 202: an emitted row goes to the end of the result list
Emit(res, it) == Append(res, it)

\* mutant: the row in progress at the end of the input is dropped
RemainingDropped(res, it, started) == res

\* lines 200-203: the row in progress when the input ends
Remaining(res, it, started) == IF started THEN Emit(res, it) ELSE res

\* mutant: every error of set ends the call
FatalAlways(e) == TRUE

\* mutant: only an unsupported type is fatal, an unknown field is collected
FatalUnsupportedOnly(e) == e = "UnsupportedTypeError"

\* lines 187-191: the error classes that end the call
Fatal(e) == e \in {"FieldError", "UnsupportedTypeError"}

\* lines 206-216: the destination built from the result list
Destination(all, hp, isPtr) ==
  IF isPtr THEN all ELSE [i \in 1..Len(all) |-> hp[all[i]]]

\* the locals of the scan loop
ScanState(hp, it, started, ln, res, errs, e) ==
  [heap |-> hp, item |-> it, contentStarted |-> started, line |-> ln,
   result |-> res, recordErrors |-> errs, err |-> e]

\* mutant: the row counter is not advanced when a row is emitted
BlankLineNoCount(st, T) ==
  IF st.contentStarted
  THEN [st EXCEPT !.result = Emit(st.result, st.item),
                  !.heap = Append(st.heap, NewRecord(T)),
                  !.item = Len(st.heap) + 1,
                  !.contentStarted = FALSE]
  ELSE st

\* mutant: every blank line emits the current record
BlankLineAlways(st, T) ==
  [st EXCEPT !.line = st.line + 1,
             !.result = Emit(st.result, st.item),
             !.heap = Append(st.heap, NewRecord(T)),
             !.item = Len(st.heap) + 1,
             !.contentStarted = FALSE]

\* mutant: the record of the emitted row is filled again for the next row
BlankLineReuse(st, T) ==
  IF st.contentStarted
  THEN [st EXCEPT !.line = st.line + 1,
                  !.result = Emit(st.result, st.item),
                  !.contentStarted = FALSE]
  ELSE st

\* lines 172-177: a blank line
BlankLine(st, T) ==
  IF st.contentStarted
  THEN [st EXCEPT !.line = st.line + 1,
                  !.result = Emit(st.result, st.item),
                  !.heap = Append(st.heap, NewRecord(T)),
                  !.item = Len(st.heap) + 1,
                  !.contentStarted = FALSE]
  ELSE st

\* mutant: a row starts only when a name=value pair is stored
FieldLineLazyStart(st, s, cls, T) ==
  LET parts == SplitN2(s, "=")
      param == parts[1]
      val   == IF Len(parts) = 2 THEN TrimSpace(parts[2]) ELSE <<>>
      r     == set(param, val, st.heap[st.item], T)
      st1   == [st EXCEPT !.contentStarted = TRUE]
  IN IF Len(parts) = 2 /\ val # <<>>
     THEN IF r.err = "nil"
          THEN [st1 EXCEPT !.heap[st.item] = r.rec]
          ELSE IF Fatal(r.err)
          THEN [st1 EXCEPT !.err = [kind |-> r.err, field |-> param]]
          ELSE [st1 EXCEPT !.recordErrors =
                             Append(st.recordErrors, RecordError(cls, param, st.line))]
     ELSE st

\* lines 179-196: a non-blank line
FieldLine(st, s, cls, T) ==
  LET parts == SplitN2(s, "=")
      param == parts[1]
      val   == IF Len(parts) = 2 THEN TrimSpace(parts[2]) ELSE <<>>
      r     == set(param, val, st.heap[st.item], T)
      st1   == [st EXCEPT !.contentStarted = TRUE]
  IN IF Len(parts) = 2 /\ val # <<>>
     THEN IF r.err = "nil"
          THEN [st1 EXCEPT !.heap[st.item] = r.rec]
          ELSE IF Fatal(r.err)
          THEN [st1 EXCEPT !.err = [kind |-> r.err, field |-> param]]
          ELSE [st1 EXCEPT !.recordErrors =
                             Append(st.recordErrors, RecordError(cls, param, st.line))]
     ELSE st1

\* the body of the loop of lines 169-198, for the line text
ScanStep(st, text, cls, T) ==
  LET s == TrimSpace(text)
  IN IF s = <<>> THEN BlankLine(st, T) ELSE FieldLine(st, s, cls, T)

\* one iteration of the loop of lines 169-198
ScanLine ==
  /\ pc = "scan"
  /\ pos < Len(stdout)
  /\ pos' = pos + 1
  /\ stdout' = stdout
  /\ LET st == ScanStep(ScanState(heap, item, contentStarted, line, result,
                                  recordErrors, err),
                        stdout[pos + 1], class, shape.type)
     IN /\ heap' = st.heap
        /\ item' = st.item
        /\ contentStarted' = st.contentStarted
        /\ line' = st.line
        /\ result' = st.result
        /\ recordErrors' = st.recordErrors
        /\ err' = st.err
        /\ pc' = IF st.err = NoErr THEN "scan" ELSE "done"
  /\ UNCHANGED << argVars, raceVars, columns, where, timeout, out, fieldCache, query >>

\* mutant: the decoded rows are appended to what the destination held
FinishAppend ==
  /\ pc = "scan"
  /\ pos = Len(stdout)
  /\ result' = Remaining(result, item, contentStarted)
  /\ IF shape.addressable
     THEN /\ out' = out \o Destination(result', heap, shape.elemPtr)
          /\ pc' = "done"
     ELSE /\ out' = out
          /\ pc' = "panic"
  /\ UNCHANGED << argVars, raceVars, stdout, pos, item, contentStarted, line, columns,
                  where, timeout, heap, fieldCache, query, recordErrors, err >>

\* lines 200-218: the last row, then the destination is replaced; a slice
\* that was passed by value is not settable and reflect.Value.Set panics
Finish ==
  /\ pc = "scan"
  /\ pos = Len(stdout)
  /\ result' = Remaining(result, item, contentStarted)
  /\ IF shape.addressable
     THEN /\ out' = Destination(result', heap, shape.elemPtr)
          /\ pc' = "done"
     ELSE /\ out' = out
          /\ pc' = "panic"
  /\ UNCHANGED << argVars, raceVars, stdout, pos, item, contentStarted, line, columns,
                  where, timeout, heap, fieldCache, query, recordErrors, err >>

----------------------------------------------------------------------------
(* key/value pipeline: decoding the text of one call *)

BadShapes ==
  { [addressable |-> TRUE, slice |-> FALSE, elemPtr |-> FALSE, elemStruct |-> FALSE, type |-> Person],
    [addressable |-> TRUE, slice |-> TRUE,  elemPtr |-> FALSE, elemStruct |-> FALSE, type |-> Person] }

cA == <<"W", "i", "n", "3", "2", "_", "A">>
cB == <<"W", "i", "n", "3", "2", "_", "B">>

Call(e, cl, cols, wh, tmo, sh, f) ==
  [entry |-> e, class |-> cl, columns |-> cols, where |-> wh, timeout |-> tmo,
   shape |-> sh, filled |-> f]

DecodeCalls ==
  { Call("QueryWithTimeout", cA, <<>>, <<>>, TIMEOUT_DEFAULT,
         [addressable |-> TRUE, slice |-> TRUE, elemPtr |-> FALSE, elemStruct |-> TRUE, type |-> Person], TRUE),
    Call("QueryAllWithTimeout", cB, <<>>, <<>>, TIMEOUT_DEFAULT,
         [addressable |-> TRUE, slice |-> TRUE, elemPtr |-> TRUE, elemStruct |-> TRUE, type |-> Person], FALSE),
    Call("QueryWithTimeout", cB, <<>>, <<>>, TIMEOUT_DEFAULT,
         [addressable |-> FALSE, slice |-> TRUE, elemPtr |-> FALSE, elemStruct |-> TRUE, type |-> Person], TRUE),
    Call("QueryAllWithTimeout", cB, <<>>, <<>>, <<"3", "0">>,
         [addressable |-> TRUE, slice |-> TRUE, elemPtr |-> TRUE, elemStruct |-> TRUE, type |-> Person], TRUE) }
  \cup { Call("QueryAll", cA, <<>>, <<>>, <<>>, sh, TRUE) : sh \in BadShapes }

Init == \E c \in DecodeCalls : InitCall(c)

Next ==
  \/ Enter
  \/ Validate
  \/ BuildQuery
  \/ ParseTimeout
  \/ RunError
  \/ RunStderr
  \/ RunOk(Texts(LineSet, MaxLines))
  \/ ScanLine
  \/ Finish

Spec == Init /\ [][Next]_vars

----------------------------------------------------------------------------
(* delimited pipeline (second file of src/wmi.go, lines 286-429) *)

CsvEntries == {"csv.QueryAll", "csv.QueryColumns", "csv.QueryWhere", "csv.Query"}

\* the columns and where that reach Query, lines 305-317
CsvQueryParams(e, cols, wh) ==
  CASE e = "csv.QueryAll"     -> [columns |-> <<>>, where |-> <<>>]
    [] e = "csv.QueryColumns" -> [columns |-> cols, where |-> <<>>]
    [] e = "csv.QueryWhere"   -> [columns |-> <<>>, where |-> wh]
    [] e = "csv.Query"        -> [columns |-> cols, where |-> wh]

CsvEnter ==
  /\ pc = "call"
  /\ entry \in CsvEntries
  /\ LET p == CsvQueryParams(entry, argColumns, argWhere)
     IN /\ columns' = p.columns
        /\ where' = p.where
  /\ pc' = "csv_build"
  /\ UNCHANGED << argVars, raceVars, scanVars, timeout, out, heap, fieldCache, query,
                  recordErrors, err >>

\* Query, lines 321-337 (the where tokens are built as in lines 107-117)
CsvBuildQuery ==
  /\ pc = "csv_build"
  /\ query' = <<tPATH, class>> \o WhereTokens(where) \o <<tGET>>
              \o (IF Len(columns) > 0 THEN << Join(columns, ",") >> ELSE <<>>)
              \o <<tCSV>>
  /\ pc' = "csv_run"
  /\ UNCHANGED << argVars, raceVars, scanVars, columns, where, timeout, out, heap,
                  fieldCache, recordErrors, err >>

\* lines 342-345
CsvRunError ==
  /\ pc = "csv_run"
  /\ pc' = "done"
  /\ err' = Error("Run")
  /\ UNCHANGED << argVars, raceVars, scanVars, columns, where, timeout, out, heap,
                  fieldCache, query, recordErrors >>

\* lines 346-348
CsvRunStderr ==
  /\ pc = "csv_run"
  /\ pc' = "done"
  /\ err' = Error("Stderr")
  /\ UNCHANGED << argVars, raceVars, scanVars, columns, where, timeout, out, heap,
                  fieldCache, query, recordErrors >>

\* lines 338-349: the process succeeded and printed text
CsvRunOk(texts) ==
  /\ pc = "csv_run"
  /\ \E t \in texts : stdout' = t
  /\ pc' = "csv_validate"
  /\ UNCHANGED << argVars, raceVars, pos, item, contentStarted, line, result, columns,
                  where, timeout, out, heap, fieldCache, query, recordErrors, err >>

\* strings.ReplaceAll(s, "\"", ""), line 355
StripQuotes(s) == SelectSeq(s, LAMBDA c : c # "\"")

\* lines 350-358 and 383: the non-blank lines, quotes removed
Source(text) ==
  LET kept == SelectSeq(text, LAMBDA l : TrimSpace(l) # <<>>)
  IN [i \in 1..Len(kept) |-> StripQuotes(kept[i])]

\* csv.Reader as configured in lines 385-387: empty lines are skipped, a
\* line is split at the commas and leading space of a field is dropped
CsvRecords(text) ==
  LET src == SelectSeq(Source(text), LAMBDA l : l # <<>>)
  IN [i \in 1..Len(src) |->
        LET parts == Split(src[i], ",")
        IN [j \in 1..Len(parts) |-> TrimLeft(parts[j])]]

\* lines 361-381
CsvValidate ==
  /\ pc = "csv_validate"
  /\ IF ~shape.slice
     THEN pc' = "done" /\ err' = Error("NotSlice")
     ELSE IF ~shape.elemStruct
     THEN pc' = "done" /\ err' = Error("NotStruct")
     ELSE pc' = "csv_header" /\ err' = err
  /\ UNCHANGED << argVars, raceVars, scanVars, columns, where, timeout, out, heap,
                  fieldCache, query, recordErrors >>

\* lines 383-394: csvutil.NewDecoder reads the header record
CsvNewDecoder ==
  /\ pc = "csv_header"
  /\ IF CsvRecords(stdout) = <<>>
     THEN pc' = "done" /\ err' = Error("EOF") /\ pos' = pos
     ELSE pc' = "csv_decode" /\ err' = err /\ pos' = 1
  /\ result' = <<>>
  /\ UNCHANGED << argVars, raceVars, stdout, item, contentStarted, line, columns, where,
                  timeout, out, heap, fieldCache, query, recordErrors >>

\* dec.Decode, line 399: a record whose field count differs from the
\* header's is a *csv.ParseError; otherwise every column that names a field
\* of the record type is converted, and a failed conversion is an error of
\* the decoder
RECURSIVE CsvFill(_, _, _, _, _)
CsvFill(rec, header, fields, T, i) ==
  IF i > Len(header) THEN [err |-> "nil", rec |-> rec]
  ELSE IF FieldByName(T, header[i]) = 0 THEN CsvFill(rec, header, fields, T, i + 1)
  ELSE LET r == set(header[i], fields[i], rec, T)
       IN IF r.err = "nil" THEN CsvFill(r.rec, header, fields, T, i + 1)
          ELSE IF r.err = "coerce" THEN [err |-> "UnmarshalTypeError", rec |-> rec]
          ELSE [err |-> r.err, rec |-> rec]

CsvDecode(header, fields, T) ==
  IF Len(fields) # Len(header) THEN [err |-> "ParseError", rec |-> NewRecord(T)]
  ELSE CsvFill(NewRecord(T), header, fields, T, 1)

\* mutant: a parse error of a row ends the call like any other error
SkippedNever(e) == FALSE

\* lines 401-407: the errors after which the loop continues with the next row
Skipped(e) == e = "ParseError"

\* one iteration of the loop of lines 396-413 that reads a record
CsvDecodeRow ==
  /\ pc = "csv_decode"
  /\ pos < Len(CsvRecords(stdout))
  /\ pos' = pos + 1
  /\ LET recs == CsvRecords(stdout)
         r    == CsvDecode(recs[1], recs[pos + 1], shape.type)
     IN /\ heap' = Append(heap, r.rec)
        /\ IF Skipped(r.err)
           THEN UNCHANGED << pc, err, result >>
           ELSE IF r.err # "nil"
           THEN pc' = "done" /\ err' = Error(r.err) /\ result' = result
           ELSE pc' = pc /\ err' = err /\ result' = Append(result, Len(heap) + 1)
  /\ UNCHANGED << argVars, raceVars, stdout, item, contentStarted, line, columns, where,
                  timeout, out, fieldCache, query, recordErrors >>

\* the iteration that meets io.EOF, then lines 415-428
CsvFinish ==
  /\ pc = "csv_decode"
  /\ pos = Len(CsvRecords(stdout))
  /\ heap' = Append(heap, NewRecord(shape.type))
  /\ IF shape.addressable
     THEN /\ out' = Destination(result, heap', shape.elemPtr)
          /\ pc' = "done"
     ELSE /\ out' = out
          /\ pc' = "panic"
  /\ UNCHANGED << argVars, raceVars, scanVars, columns, where, timeout, fieldCache,
                  query, recordErrors, err >>

----------------------------------------------------------------------------
(* delimited pipeline: decoding the text of one call *)

MaxCsvLines == 4

cHdr    == <<"N", "a", "m", "e", ",", "A", "g", "e">>
cAl     == <<"\"", "A", "l", "\"", ",", "\"", "3", "0", "\"">>
cBo     == <<"B", "o", ",", " ", "7">>
cShort  == <<"C", "y">>
cLong   == <<"D", "i", ",", "5", ",", "x">>
cBadAge == <<"E", "d", ",", "x">>

CsvLineSet == { lBlank, cHdr, cAl, cBo, cShort, cLong, cBadAge }

CsvDecodeCalls ==
  { Call("csv.QueryAll", cA, <<>>, <<>>, <<>>,
         [addressable |-> TRUE, slice |-> TRUE, elemPtr |-> FALSE, elemStruct |-> TRUE, type |-> Person], TRUE),
    Call("csv.Query", cB, << nName, nAge >>, <<"a">>, <<>>,
         [addressable |-> TRUE, slice |-> TRUE, elemPtr |-> TRUE, elemStruct |-> TRUE, type |-> Person], FALSE),
    Call("csv.QueryColumns", cB, << nName >>, <<>>, <<>>,
         [addressable |-> TRUE, slice |-> TRUE, elemPtr |-> FALSE, elemStruct |-> FALSE, type |-> Person], TRUE),
    Call("csv.QueryWhere", cA, <<>>, <<"a">>, <<>>,
         [addressable |-> TRUE, slice |-> FALSE, elemPtr |-> FALSE, elemStruct |-> FALSE, type |-> Person], FALSE) }

InitCsv == \E c \in CsvDecodeCalls : InitCall(c)

NextCsv ==
  \/ CsvEnter
  \/ CsvBuildQuery
  \/ CsvRunError
  \/ CsvRunStderr
  \/ CsvRunOk(Texts(CsvLineSet, MaxCsvLines))
  \/ CsvValidate
  \/ CsvNewDecoder
  \/ CsvDecodeRow
  \/ CsvFinish

SpecCsv == InitCsv /\ [][NextCsv]_vars

----------------------------------------------------------------------------
(* building the argument list, both pipelines *)

MaxWhere == 3

WhereChars == {"(", ")", "a", " "}

ColumnLists == { <<>>, << nName >>, << nAge, nName >> }

AllEntries == WithTimeoutEntries \cup DefaultEntries \cup CsvEntries

QueryCalls ==
  { Call(e, cA, cols, wh, TIMEOUT_DEFAULT,
         [addressable |-> TRUE, slice |-> TRUE, elemPtr |-> FALSE, elemStruct |-> TRUE, type |-> Person], FALSE) :
      e \in AllEntries, cols \in ColumnLists, wh \in Texts(WhereChars, MaxWhere) }

InitQuery == \E c \in QueryCalls : InitCall(c)

NextQuery ==
  \/ Enter
  \/ Validate
  \/ BuildQuery
  \/ ParseTimeout
  \/ RunError
  \/ RunStderr
  \/ CsvEnter
  \/ CsvBuildQuery
  \/ CsvRunError
  \/ CsvRunStderr

SpecQuery == InitQuery /\ [][NextQuery]_vars

----------------------------------------------------------------------------
(* what the lines of LineSet mean, read off the text format *)

BlankLines       == { lBlank, lSpace }
GoodLines        == { lNameAl, lNameBo, lAge30 }
BadValueLines    == { lAgeBad, lAgeBig, lOkBad, lSizeNeg }
UnknownLines     == { lBogus }
UnsupportedLines == { lTags }
IgnoredLines     == { lNameNone, lJunk }

\* index of the field a good or bad-value line is about
LineField(l) ==
  CASE l \in { lNameAl, lNameBo }  -> 1
    [] l \in { lAge30, lAgeBad, lAgeBig } -> 2
    [] l = lOkBad                  -> 3
    [] l = lSizeNeg                -> 4

\* the typed value a good line carries
LineValue(l) ==
  CASE l = lNameAl -> <<"A", "l">>
    [] l = lNameBo -> <<"B", "o">>
    [] l = lAge30  -> 30

SetMax(S) == CHOOSE x \in S : \A y \in S : y <= x

\* positions at which a block (maximal run of non-blank lines) starts
RowStarts(t) ==
  { k \in 1..Len(t) : t[k] \notin BlankLines /\ (k = 1 \/ t[k - 1] \in BlankLines) }

NumRows(t) == Cardinality(RowStarts(t))

\* 1-based number of the block that the non-blank line at position k is in
RowOf(t, k) == Cardinality({ j \in RowStarts(t) : j <= k })

RowLines(t, r) == { k \in 1..Len(t) : t[k] \notin BlankLines /\ RowOf(t, k) = r }

\* the record that block r describes: each field holds the value of the last
\* good line of the block that names it, or its zero value
Expected(t, r) ==
  [f \in 1..Len(Person.fields) |->
     LET ks == { k \in RowLines(t, r) : t[k] \in GoodLines /\ LineField(t[k]) = f }
     IN IF ks = {} THEN ZeroOf(Person.fields[f].kind)
        ELSE LineValue(t[SetMax(ks)])]

\* element i of the destination, as a record
OutRec(i) == IF shape.elemPtr THEN heap[out[i]] ELSE out[i]

\* the call reached the scan loop and has returned
ScanReturned == pc = "done" /\ line >= 1

WellFormedText(t) == \A k \in 1..Len(t) : t[k] \in BlankLines \cup GoodLines

----------------------------------------------------------------------------
(* claims about the key/value pipeline *)

\* C1: a text of N well-formed rows decodes without a fatal error into
\* exactly N elements, element i holding the values of block i.
C1_RowsInOrder ==
  (ScanReturned /\ WellFormedText(stdout)) =>
     /\ err = NoErr
     /\ Len(out) = NumRows(stdout)
     /\ \A r \in 1..Len(out) : OutRec(r) = Expected(stdout, r)

C1_Witness ==
  /\ ScanReturned /\ WellFormedText(stdout)
  /\ Len(out) = 2
  /\ OutRec(1) # OutRec(2)
  /\ OutRec(1)[2] = 30


\* the recoverable errors that the bad-value lines of t call for, in text order
ExpectedErrors(t, cls) ==
  LET F[k \in 0..Len(t)] ==
        IF k = 0 THEN <<>>
        ELSE IF t[k] \in BadValueLines
        THEN Append(F[k - 1], [Class |-> cls,
                               Field |-> Person.fields[LineField(t[k])].name,
                               Line  |-> RowOf(t, k)])
        ELSE F[k - 1]
  IN F[Len(t)]

BadPositions(t) == { k \in 1..Len(t) : t[k] \in BadValueLines }

\* C2 as stated: for every input, every line with an unparsable value has its
\* RecordError (field name, row number) and the field of the decoded row is zero.
C2_AsStated ==
  ScanReturned =>
     /\ recordErrors = ExpectedErrors(stdout, class)
     /\ \A k \in BadPositions(stdout) :
          /\ RowOf(stdout, k) <= Len(out)
          /\ OutRec(RowOf(stdout, k))[LineField(stdout[k])]
               = ZeroOf(Person.fields[LineField(stdout[k])].kind)

\* C2 amended: in a call that returns no fatal error, every line with an
\* unparsable value has exactly one RecordError (field name, row number), in
\* text order, and leaves the field as the other lines of its row made it:
\* zero unless a parsable line of the same row names that field.
C2_CoercionErrors ==
  (ScanReturned /\ err = NoErr) =>
     /\ recordErrors = ExpectedErrors(stdout, class)
     /\ \A k \in BadPositions(stdout) :
          /\ RowOf(stdout, k) <= Len(out)
          /\ OutRec(RowOf(stdout, k))[LineField(stdout[k])]
               = Expected(stdout, RowOf(stdout, k))[LineField(stdout[k])]

C2_Witness ==
  /\ ScanReturned /\ err = NoErr
  /\ stdout = << lNameAl, lBlank, lAgeBad >>
  /\ recordErrors = << [Class |-> class, Field |-> nAge, Line |-> 2] >>
  /\ OutRec(2)[2] = 0

\* C5 as stated: a line naming an unknown field makes the call return a
\* FieldError and the destination collection is empty.
C5_AsStated ==
  (ScanReturned /\ \E k \in 1..Len(stdout) : stdout[k] \in UnknownLines) =>
     /\ err.kind = "FieldError"
     /\ out = <<>>

FirstOf(t, L) == CHOOSE k \in 1..Len(t) : t[k] \in L /\ \A j \in 1..(k - 1) : t[j] \notin L

\* C5 amended: a line naming an unknown field makes the call return a fatal
\* error (the FieldError of the first such line, unless an earlier line named
\* a field of unsupported type) and the destination collection is left
\* exactly as the caller passed it, whatever rows were decoded before.
C5_UnknownFieldFatal ==
  (ScanReturned /\ \E k \in 1..Len(stdout) : stdout[k] \in UnknownLines) =>
     /\ err.kind \in {"FieldError", "UnsupportedTypeError"}
     /\ out = out0
     /\ LET u == FirstOf(stdout, UnknownLines)
        IN IF \E j \in 1..(u - 1) : stdout[j] \in UnsupportedLines
           THEN err.kind = "UnsupportedTypeError"
           ELSE err = [kind |-> "FieldError", field |-> <<"B", "o", "g", "u", "s">>] /\ pos = u

C5_Witness ==
  /\ ScanReturned
  /\ stdout = << lNameAl, lBlank, lBogus >>
  /\ err.kind = "FieldError"
  /\ Len(result) = 1
  /\ out = out0 /\ out # <<>>

\* QueryWithTimeout, lines 161-216, as a function of the text: the records
\* of the destination, or the state at the fatal error
RECURSIVE ScanAll(_, _, _, _)
ScanAll(st, t, cls, T) ==
  IF t = <<>> \/ st.err # NoErr THEN st
  ELSE ScanAll(ScanStep(st, Head(t), cls, T), Tail(t), cls, T)

Decoded(t, cls, T) ==
  LET st  == ScanAll(ScanState(<< NewRecord(T) >>, 1, FALSE, 1, <<>>, <<>>, NoErr), t, cls, T)
      all == Remaining(st.result, st.item, st.contentStarted)
  IN [i \in 1..Len(all) |-> st.heap[all[i]]]

\* C6: a row in progress at the end of the input is emitted as the last
\* element, and the text decodes as it does with a blank line added.
C6_TrailingRow ==
  (ScanReturned /\ err = NoErr /\ stdout # <<>> /\ stdout[Len(stdout)] \notin BlankLines) =>
     /\ Len(out) = NumRows(stdout)
     /\ Len(out) >= 1
     /\ OutRec(Len(out)) = Expected(stdout, NumRows(stdout))
     /\ [i \in 1..Len(out) |-> OutRec(i)] = Decoded(Append(stdout, lBlank), class, shape.type)

C6_Witness ==
  /\ ScanReturned /\ err = NoErr
  /\ stdout = << lAge30, lBlank, lNameBo >>
  /\ Len(out) = 2
  /\ OutRec(2)[1] = <<"B", "o">>

\* C7 as stated: on a fatal mapping error the scan stops at that line, the
\* decoded records are discarded and the returned recoverable-error list is empty.
C7_FatalIsSoleResult ==
  (ScanReturned /\ err.kind \in {"FieldError", "UnsupportedTypeError"}) =>
     /\ stdout[pos] \in UnknownLines \cup UnsupportedLines
     /\ out = out0
     /\ recordErrors = <<>>

\* C10 as stated: lines without a separator or with an empty value do not
\* change the framer state, so a text of such lines and blank lines yields
\* an empty collection.
C10_AsStated ==
  (ScanReturned /\ \A k \in 1..Len(stdout) : stdout[k] \in IgnoredLines \cup BlankLines) =>
     out = <<>>

\* C10 amended: a line without a separator or with an empty value stores
\* nothing in the current record but does start a row: every block is
\* emitted, a block made only of such lines as an all-zero record.
C10_IgnoredLineStartsRow ==
  (ScanReturned /\ \A k \in 1..Len(stdout) : stdout[k] \in IgnoredLines \cup BlankLines \cup GoodLines) =>
     /\ err = NoErr
     /\ recordErrors = <<>>
     /\ Len(out) = NumRows(stdout)
     /\ \A r \in 1..Len(out) : OutRec(r) = Expected(stdout, r)

C10_Witness ==
  /\ ScanReturned
  /\ stdout = << lNameAl, lBlank, lJunk >>
  /\ Len(out) = 2
  /\ OutRec(2) = NewRecord(Person)


----------------------------------------------------------------------------
(* claims about the argument list *)

QueryBuilt == query # <<>>

\* position of the GET token
GetPos == CHOOSE i \in 1..Len(query) : query[i] = tGET /\ \A j \in 1..(i - 1) : query[j] # tGET

\* entry points with a column list parameter
ColumnEntries == {"QueryColumns", "Query", "QueryColumnsWithTimeout", "QueryWithTimeout",
                  "csv.QueryColumns", "csv.Query"}

\* the comma-joined form of the column lists of ColumnLists
JoinedColumns(cols) ==
  CASE cols = << nName >>       -> <<"N", "a", "m", "e">>
    [] cols = << nAge, nName >> -> <<"A", "g", "e", ",", "N", "a", "m", "e">>

\* C3: every entry point with a column list parameter puts the comma-joined
\* explicit columns after GET whenever the caller's list is not empty.
C3_ExplicitColumnsUsed ==
  (QueryBuilt /\ entry \in ColumnEntries /\ argColumns # <<>>) =>
     /\ GetPos < Len(query)
     /\ query[GetPos + 1] = JoinedColumns(argColumns)

\* the tokens between WHERE and GET
FilterTokens == SubSeq(query, 4, GetPos - 1)

\* the clause, trimmed, and its tokens
Clause == TrimSpace(where)
ClauseTokens == Split(Clause, " ")
OpensWithParen == Clause # <<>> /\ Clause[1] = "("
ClosesWithParen == Clause # <<>> /\ Clause[Len(Clause)] = ")"

\* C4 as stated: a clause wrapped in parentheses is passed as it is, any
\* other clause gets one "(" before and one ")" after its tokens.
C4_AsStated ==
  (QueryBuilt /\ where # <<>>) =>
     /\ query[3] = tWHERE
     /\ IF OpensWithParen /\ ClosesWithParen
        THEN FilterTokens = ClauseTokens
        ELSE FilterTokens = << <<"(">> >> \o ClauseTokens \o << <<")">> >>

\* C4 amended: a "(" token is added before the clause tokens exactly when
\* the clause does not begin with "(", and a ")" token is added after them
\* exactly when it does not end with ")"; the two are decided separately, so
\* a clause with only one of the two gets only the missing one.
C4_WrapEachSide ==
  (QueryBuilt /\ where # <<>>) =>
     /\ query[3] = tWHERE
     /\ FilterTokens = (IF OpensWithParen THEN <<>> ELSE << <<"(">> >>)
                       \o ClauseTokens
                       \o (IF ClosesWithParen THEN <<>> ELSE << <<")">> >>)

C4_Witness ==
  /\ QueryBuilt
  /\ where = <<"(", "a">>
  /\ FilterTokens = << <<"(", "a">>, <<")">> >>


----------------------------------------------------------------------------
(* claims about the delimited pipeline *)

CsvGoodRows  == { cAl, cBo }
CsvWrongRows == { cShort, cLong }

\* the record a good data row describes under the header Name,Age
CsvRowValue(l) ==
  CASE l = cAl -> << <<"A", "l">>, 30, FALSE, 0, <<>> >>
    [] l = cBo -> << <<"B", "o">>, 7, FALSE, 0, <<>> >>

\* the text starts with the header Name,Age; the data lines follow
HasHeader(t) == t # <<>> /\ t[1] = cHdr
DataLines(t) == SelectSeq(Tail(t), LAMBDA l : l # lBlank)

\* the call got as far as reading data records and has returned
CsvReturned == pc = "done" /\ pos >= 1

\* C8: a field value that cannot be converted never aborts the batch; the
\* call returns no error and the failure is in the auxiliary list.  Here for
\* the delimited pipeline: data rows of the right shape, some with a bad Age.
C8_CoercionNeverAborts ==
  (/\ CsvReturned
   /\ HasHeader(stdout)
   /\ \A k \in 2..Len(stdout) : stdout[k] \in CsvGoodRows \cup { cBadAge, lBlank }
   /\ \E k \in 2..Len(stdout) : stdout[k] = cBadAge) =>
     /\ err = NoErr
     /\ Len(out) = Len(DataLines(stdout))
     /\ Len(recordErrors) = Cardinality({ k \in 2..Len(stdout) : stdout[k] = cBadAge })

\* C9: a data row with a wrong field count is skipped; the rows before and
\* after it are decoded in text order and the call returns no error.
C9_WrongCountSkipped ==
  (/\ CsvReturned
   /\ HasHeader(stdout)
   /\ \A k \in 2..Len(stdout) : stdout[k] \in CsvGoodRows \cup CsvWrongRows \cup { lBlank }) =>
     /\ err = NoErr
     /\ LET good == SelectSeq(DataLines(stdout), LAMBDA l : l \in CsvGoodRows)
        IN /\ Len(out) = Len(good)
           /\ \A i \in 1..Len(out) : OutRec(i) = CsvRowValue(good[i])

C9_Witness ==
  /\ CsvReturned
  /\ stdout = << cHdr, cAl, cShort, cBo >>
  /\ err = NoErr
  /\ Len(out) = 2
  /\ OutRec(2)[1] = <<"B", "o">>


----------------------------------------------------------------------------
(* claims about the key/value framer *)

\* the scan loop is running, or has ended
Scanning == pc = "scan"

\* blank lines among the first n lines of t that end a block
BlankEmissions(t, n) ==
  Cardinality({ j \in 2..n : t[j] \in BlankLines /\ t[j - 1] \notin BlankLines })

LinesNonDecreasing(errs) ==
  \A i \in 1..Len(errs) : \A j \in i..Len(errs) : errs[i].Line <= errs[j].Line

\* C11: during the scan the row counter is 1 plus the number of rows
\* emitted so far; it never decreases and grows by one exactly when a blank
\* line emits a row; every RecordError.Line is the position in the
\* destination of the record whose field failed, and the Line values of the
\* returned list do not decrease.
C11_RowCounter ==
  /\ [](Scanning => line = 1 + Len(result))
  /\ [](line >= 1 => /\ line = 1 + BlankEmissions(stdout, pos)
                     /\ LinesNonDecreasing(recordErrors)
                     /\ \A i \in 1..Len(recordErrors) : recordErrors[i].Line <= line)
  /\ []((ScanReturned /\ err = NoErr) =>
          /\ recordErrors = ExpectedErrors(stdout, class)
          /\ \A i \in 1..Len(recordErrors) : recordErrors[i].Line \in 1..Len(out))
  /\ [][Scanning =>
          /\ line' \in { line, line + 1 }
          /\ (line' = line + 1) <=>
               (pc' = "scan" /\ Len(result') = Len(result) + 1
                  /\ stdout[pos + 1] \in BlankLines)]_vars

C11_Witness ==
  /\ ScanReturned /\ err = NoErr
  /\ stdout = << lAgeBad, lBlank, lOkBad >>
  /\ line = 2
  /\ Len(recordErrors) = 2
  /\ recordErrors[1].Line = 1 /\ recordErrors[2].Line = 2
  /\ Len(out) = 2

\* C12: a blank line met while no row is in progress changes neither the
\* result list nor the row counter nor the current record, so the rows
\* emitted are the maximal runs of non-blank lines.
C12_IdleBlankNoOp ==
  /\ [][(Scanning /\ pos < Len(stdout) /\ stdout[pos + 1] \in BlankLines /\ ~contentStarted) =>
          UNCHANGED << result, line, item, heap, contentStarted, recordErrors >>]_vars
  /\ [](line >= 1 /\ pc \in {"scan"} =>
          Len(result) + (IF contentStarted THEN 1 ELSE 0) = NumRows(SubSeq(stdout, 1, pos)))
  /\ []((ScanReturned /\ err = NoErr) =>
          /\ Len(result) = NumRows(stdout)
          /\ Len(out) = NumRows(stdout))

C12_Witness ==
  /\ ScanReturned /\ err = NoErr
  /\ stdout = << lBlank, lSpace, lNameAl >>
  /\ Len(out) = 1
  /\ line = 1


----------------------------------------------------------------------------
(* claims about rows with coercion errors and about fresh records *)

lOkTrue == <<"O", "k", "=", "t", "r", "u", "e">>
lSize7  == <<"S", "i", "z", "e", "=", "7">>

\* a line with a valid value for the field that the bad-value line l names
ValidFor(l) ==
  CASE LineField(l) = 2 -> lAge30
    [] LineField(l) = 3 -> lOkTrue
    [] LineField(l) = 4 -> lSize7

\* the destination as a sequence of records
OutRecords == [i \in 1..Len(out) |-> OutRec(i)]

\* C15: after a recoverable coercion error the scan goes on with the rest
\* of the row and with the following rows; the number and order of the
\* elements and all other fields are as if the failing value had been valid.
C15_ContinuesAfterCoercionError ==
  (/\ ScanReturned
   /\ BadPositions(stdout) # {}
   /\ \A k \in 1..Len(stdout) : stdout[k] \notin UnknownLines \cup UnsupportedLines) =>
     /\ err = NoErr
     /\ pos = Len(stdout)
     /\ Len(out) = NumRows(stdout)
     /\ \A k \in BadPositions(stdout) :
          LET valid == Decoded([stdout EXCEPT ![k] = ValidFor(stdout[k])], class, shape.type)
          IN /\ Len(out) = Len(valid)
             /\ \A r \in 1..Len(out) : \A f \in 1..Len(Person.fields) :
                  (r # RowOf(stdout, k) \/ f # LineField(stdout[k])) =>
                     OutRec(r)[f] = valid[r][f]

C15_Witness ==
  /\ ScanReturned /\ err = NoErr
  /\ stdout = << lAgeBad, lNameAl >>
  /\ OutRec(1)[1] = <<"A", "l">>
  /\ Len(recordErrors) = 1

\* C17: every emitted row is decoded into a fresh record: a field of
\* element i is non-zero only if a line of block i set it, and with pointer
\* elements no two elements are the same record.
C17_FreshRecordPerRow ==
  (ScanReturned /\ err = NoErr) =>
     /\ \A r \in 1..Len(out) : \A f \in 1..Len(Person.fields) :
          OutRec(r)[f] # ZeroOf(Person.fields[f].kind) =>
             \E k \in RowLines(stdout, r) : stdout[k] \in GoodLines /\ LineField(stdout[k]) = f
     /\ shape.elemPtr =>
          \A i \in 1..Len(out) : \A j \in 1..Len(out) : i # j => out[i] # out[j]
     /\ shape.elemPtr => \A i \in 1..Len(out) : \A j \in 1..Len(out0) : out[i] # out0[j]

C17_Witness ==
  /\ ScanReturned /\ err = NoErr
  /\ shape.elemPtr
  /\ stdout = << lNameAl, lBlank, lAge30 >>
  /\ Len(out) = 2 /\ out[1] # out[2]
  /\ OutRec(2)[1] = <<>> /\ OutRec(1)[2] = 0


----------------------------------------------------------------------------
(* claims about the destination collection *)

FatalKinds == {"NotSlice", "NotStruct", "ParseDuration", "Run", "Stderr",
               "FieldError", "UnsupportedTypeError"}

\* C18: the destination is written only on the success path, once, after
\* the last line was read: until then and on every fatal return it is what
\* the caller passed in, and on success its length is the number of rows
\* emitted, whatever it held before.
C18_DestinationWrittenOnSuccess ==
  /\ [](pc # "done" => out = out0)
  /\ []((pc = "done" /\ err # NoErr) => (err.kind \in FatalKinds /\ out = out0))
  /\ []((pc = "done" /\ err = NoErr) =>
          /\ pos = Len(stdout)
          /\ Len(out) = Len(result)
          /\ Len(out) = NumRows(stdout))
  /\ [][out' # out =>
          (pc = "scan" /\ pos = Len(stdout) /\ pc' = "done" /\ err' = NoErr)]_vars

C18_Witness ==
  /\ pc = "done" /\ err = NoErr
  /\ Len(out0) = 1
  /\ stdout = << lNameAl, lBlank, lAge30 >>
  /\ Len(out) = 2


----------------------------------------------------------------------------
(* integer coercion: one field line, or a valid line and then the line *)

MaxValueLen == 3

ValueChars == {"-", "+", "0", "1", "2", "9", "x"}

BoundaryTexts ==
  { <<"1", "2", "7">>, <<"1", "2", "8">>, <<"-", "1", "2", "8">>, <<"-", "1", "2", "9">>,
    <<"2", "5", "5">>, <<"2", "5", "6">>,
    <<"3", "2", "7", "6", "7">>, <<"3", "2", "7", "6", "8">>,
    <<"-", "3", "2", "7", "6", "8">>, <<"-", "3", "2", "7", "6", "9">>,
    <<"6", "5", "5", "3", "5">>, <<"6", "5", "5", "3", "6">>,
    <<"+", "1", "2", "7">>, <<"0", "0", "1", "2", "7">>, <<"1", "_", "0">> }

ValueTexts == (Texts(ValueChars, MaxValueLen) \ { <<>> }) \cup BoundaryTexts

CoerceLine(name, v) == name \o <<"=">> \o v

CoerceTexts ==
  { << CoerceLine(Widths.fields[f].name, v) >> : f \in 1..4, v \in ValueTexts }
  \cup { << CoerceLine(Widths.fields[f].name, <<"5">>),
            CoerceLine(Widths.fields[f].name, v) >> : f \in 1..4, v \in ValueTexts }

CoerceCalls ==
  { Call("QueryWithTimeout", cA, <<>>, <<>>, TIMEOUT_DEFAULT,
         [addressable |-> TRUE, slice |-> TRUE, elemPtr |-> p, elemStruct |-> TRUE, type |-> Widths],
         FALSE) : p \in BOOLEAN }

InitCoerce == \E c \in CoerceCalls : InitCall(c)

NextCoerce ==
  \/ Enter
  \/ Validate
  \/ BuildQuery
  \/ ParseTimeout
  \/ RunOk(CoerceTexts)
  \/ ScanLine
  \/ Finish

SpecCoerce == InitCoerce /\ [][NextCoerce]_vars

\* decimal numerals: digits, for a signed field after an optional sign
DecimalDigits == {"0", "1", "2", "3", "4", "5", "6", "7", "8", "9"}
IsNumeral(v, signed) ==
  LET d == IF signed /\ v # <<>> /\ v[1] \in {"+", "-"} THEN Tail(v) ELSE v
  IN d # <<>> /\ \A i \in 1..Len(d) : d[i] \in DecimalDigits

DigitValue ==
  [c \in DecimalDigits |->
     CASE c = "0" -> 0 [] c = "1" -> 1 [] c = "2" -> 2 [] c = "3" -> 3 [] c = "4" -> 4
       [] c = "5" -> 5 [] c = "6" -> 6 [] c = "7" -> 7 [] c = "8" -> 8 [] c = "9" -> 9]

\* the number a numeral denotes
NumeralValue(v) ==
  LET neg == v[1] = "-"
      d   == IF v[1] \in {"+", "-"} THEN Tail(v) ELSE v
      F[i \in 0..Len(d)] == IF i = 0 THEN 0 ELSE 10 * F[i - 1] + DigitValue[d[i]]
  IN IF neg THEN 0 - F[Len(d)] ELSE F[Len(d)]

\* the values a field of Widths can hold
FieldRange(f) ==
  CASE f = 1 -> (0 - 128)..127
    [] f = 2 -> (0 - 32768)..32767
    [] f = 3 -> 0..255
    [] f = 4 -> 0..65535

\* the field and the value of the last line of the text
LastLine == stdout[Len(stdout)]
LastField == CHOOSE f \in 1..4 : Widths.fields[f].name = << LastLine[1] >>
LastValue == SubSeq(LastLine, 3, Len(LastLine))

\* C16: a value is stored iff it is a base-10 numeral within the range of
\* the field's width and sign; any other value is never stored truncated or
\* wrapped: it gives one recoverable error, no fatal one, and the field
\* keeps what it held.
C16_WidthAwareIntegers ==
  (ScanReturned /\ shape.type = Widths) =>
     LET f      == LastField
         before == IF Len(stdout) = 2 THEN 5 ELSE 0
         fits   == /\ IsNumeral(LastValue, f \in {1, 2})
                   /\ NumeralValue(LastValue) \in FieldRange(f)
     IN /\ err = NoErr
        /\ Len(out) = 1
        /\ OutRec(1)[f] \in FieldRange(f)
        /\ IF fits
           THEN OutRec(1)[f] = NumeralValue(LastValue) /\ recordErrors = <<>>
           ELSE /\ OutRec(1)[f] = before
                /\ recordErrors = << [Class |-> class, Field |-> Widths.fields[f].name, Line |-> 1] >>

C16_Witness ==
  /\ ScanReturned /\ shape.type = Widths
  /\ stdout = << CoerceLine(nI, <<"5">>), CoerceLine(nI, <<"1", "2", "8">>) >>
  /\ OutRec(1)[1] = 5
  /\ Len(recordErrors) = 1


----------------------------------------------------------------------------
(* the field-list cache over a sequence of calls *)

RecordTypes == {Person, Disk, AnonName, AnonSize}

CacheCalls ==
  { Call(e, cl, << nName >>, <<>>, TIMEOUT_DEFAULT,
         [addressable |-> TRUE, slice |-> TRUE, elemPtr |-> FALSE, elemStruct |-> TRUE, type |-> T],
         FALSE) :
      e \in {"QueryAll", "QueryColumnsWithTimeout"}, cl \in {cA, cB}, T \in RecordTypes }

InitCache == \E c \in CacheCalls : InitCall(c)

\* the caller makes another call; the package variable fieldCache stays
NewCall ==
  /\ pc = "done"
  /\ \E c \in CacheCalls :
       /\ entry' = c.entry
       /\ class' = c.class
       /\ argColumns' = c.columns
       /\ argWhere' = c.where
       /\ argTimeout' = c.timeout
       /\ shape' = c.shape
  /\ pc' = "call"
  /\ columns' = <<>>
  /\ where' = <<>>
  /\ timeout' = <<>>
  /\ query' = <<>>
  /\ err' = NoErr
  /\ UNCHANGED << raceVars, scanVars, out, out0, heap, fieldCache, recordErrors >>

NextCache ==
  \/ NewCall
  \/ Enter
  \/ Validate
  \/ BuildQuery
  \/ ParseTimeout
  \/ RunError
  \/ RunStderr

SpecCache == InitCache /\ [][NextCache]_vars

\* the token after GET of a query without a filter
GetList == query[4]

\* C13: with an empty column list the token after GET is the comma-joined
\* field names of the record type of the call, in declaration order, and a
\* written cache entry is never changed or removed.
C13_CacheHitIsFresh ==
  /\ []((query # <<>> /\ Len(columns) = 0) => GetList = FieldList(shape.type))
  /\ [][\A n \in TypeNames : fieldCache[n].ok => fieldCache'[n] = fieldCache[n]]_vars


----------------------------------------------------------------------------
(* concurrent calls for one record type, with an empty column list *)

RaceCalls ==
  { Call("QueryWithTimeout", cA, <<>>, <<>>, TIMEOUT_DEFAULT,
         [addressable |-> TRUE, slice |-> TRUE, elemPtr |-> FALSE, elemStruct |-> TRUE, type |-> T],
         FALSE) : T \in {Person, Disk} }

InitRace == \E c \in RaceCalls : InitCall(c)

\* another goroutine is inside the map write of line 132
WriteInFlight(i) == \E j \in Procs \ {i} : goroutines[j].pc = "storing"
\* another goroutine is inside the map read of line 123
ReadInFlight(i) == \E j \in Procs \ {i} : goroutines[j].pc = "looking"

\* Unsynchronised access to a map while another goroutine writes it is a
\* data race: the runtime may throw the fatal error, or let it pass.
RaceOutcome(conflict, message) ==
  IF conflict THEN fault' \in {"none", message} ELSE fault' = fault

\* a goroutine calls QueryWithTimeout and reaches line 121
GoCall(i) ==
  /\ fault = "none"
  /\ goroutines[i].pc \in {"idle", "done"}
  /\ goroutines[i].calls < MaxCalls
  /\ goroutines' = [goroutines EXCEPT ![i] =
                      [pc |-> "lookup", calls |-> @.calls + 1, cols |-> <<>>]]
  /\ UNCHANGED << vars_call, fieldCache, fault >>

\* line 123, the map read begins
GoLookupBegin(i) ==
  /\ fault = "none"
  /\ goroutines[i].pc = "lookup"
  /\ goroutines' = [goroutines EXCEPT ![i].pc = "looking"]
  /\ RaceOutcome(WriteInFlight(i), "concurrent map read and map write")
  /\ UNCHANGED << vars_call, fieldCache >>

\* lines 123-124, the map read ends
GoLookupEnd(i) ==
  /\ fault = "none"
  /\ goroutines[i].pc = "looking"
  /\ LET e == fieldCache[shape.type.name]
     IN goroutines' = [goroutines EXCEPT ![i] =
                         IF e.ok THEN [@ EXCEPT !.pc = "done", !.cols = e.val]
                         ELSE [@ EXCEPT !.pc = "enumerate"]]
  /\ UNCHANGED << vars_call, fieldCache, fault >>

\* lines 126-131
GoEnumerate(i) ==
  /\ fault = "none"
  /\ goroutines[i].pc = "enumerate"
  /\ goroutines' = [goroutines EXCEPT ![i].pc = "store",
                                      ![i].cols = FieldList(shape.type)]
  /\ UNCHANGED << vars_call, fieldCache, fault >>

\* line 132, the map write begins
GoStoreBegin(i) ==
  /\ fault = "none"
  /\ goroutines[i].pc = "store"
  /\ goroutines' = [goroutines EXCEPT ![i].pc = "storing"]
  /\ IF WriteInFlight(i)
     THEN RaceOutcome(TRUE, "concurrent map writes")
     ELSE RaceOutcome(ReadInFlight(i), "concurrent map read and map write")
  /\ UNCHANGED << vars_call, fieldCache >>

\* lines 132-133, the map write ends
GoStoreEnd(i) ==
  /\ fault = "none"
  /\ goroutines[i].pc = "storing"
  /\ fieldCache' = [fieldCache EXCEPT ![shape.type.name] =
                      [ok |-> TRUE, val |-> goroutines[i].cols]]
  /\ goroutines' = [goroutines EXCEPT ![i].pc = "done"]
  /\ UNCHANGED << vars_call, fault >>

NextRace ==
  \E i \in Procs :
    \/ GoCall(i)
    \/ GoLookupBegin(i)
    \/ GoLookupEnd(i)
    \/ GoEnumerate(i)
    \/ GoStoreBegin(i)
    \/ GoStoreEnd(i)

SpecRace == InitRace /\ [][NextRace]_vars

\* C14: concurrent calls for one record type may interleave the lookup and
\* the write of the cache in any order: no fatal error is thrown, every call
\* uses the field list of the type, and when all calls have returned the
\* cache holds the entry of the type.
C14_LockFreeCacheIsSafe ==
  /\ fault = "none"
  /\ \A i \in Procs :
       goroutines[i].pc = "done" => goroutines[i].cols = FieldList(shape.type)
  /\ (\A i \in Procs : goroutines[i].pc = "done") =>
       fieldCache[shape.type.name] = [ok |-> TRUE, val |-> FieldList(shape.type)]

====
